---------------------------- MODULE Spec2Model ----------------------------
(***************************************************************************)
(* A model of fastapi-backend/main.py: the in-memory session store         *)
(* (user_sessions, UserSession), the chat handler chat_endpoint with its   *)
(* remote client get_ai_response_with_memory and its rule based fallback   *)
(* get_smart_response, and the background task cleanup_sessions.           *)
(*                                                                         *)
(* A text is a sequence of characters, each character a one-token string   *)
(* (a CJK character is written as its pinyin syllable).  An optional value *)
(* (a JSON key that may be missing, Python's None) is a sequence of length *)
(* 0 (missing) or 1 (present).  The empty text "" is the empty sequence.   *)
(***************************************************************************)
EXTENDS Integers, Sequences, FiniteSets, TLC

VARIABLES
    api_key,        \* bool(BAICHUAN_API_KEY), fixed at import (main.py:21)
    now,            \* datetime.now(), in seconds since process start
    user_sessions,  \* the dict user_id -> UserSession (an object id into heap)
    heap,           \* the UserSession objects ever constructed, by object id;
                    \* the field log of an object is a history variable:
                    \* every turn add_message was ever called with
    req,            \* per handler slot, the chat_endpoint coroutine's frame
    returned,       \* the request that returned last: its frame at the
                    \* return and the ChatResponse it gave
    started,        \* number of chat requests received so far
    net_calls,      \* number of session.post calls issued so far
    uuids,          \* number of uuid.uuid4() calls made so far
    wake_at,        \* when cleanup_sessions' current asyncio.sleep ends
    cleaned,        \* count printed by the last sweep (0: it printed nothing)
    sweep_errors,   \* number of sweeps that raised an exception so far
    reaper_pc,      \* position of the cleanup_sessions task
    parse_pc,       \* position of the response-parsing harness
    parse_data,     \* the JSON body handed to the parsing harness
    parse_result,   \* what lines 274-310 return for parse_data
    fb_pc,          \* position of the fallback responder's harness
    fb_message,     \* the message handed to get_smart_response
    fb_reply        \* what get_smart_response returned for fb_message

vars == <<api_key, now, user_sessions, heap, req, returned, started,
          net_calls, uuids, wake_at, cleaned, sweep_errors, reaper_pc,
          parse_pc, parse_data,
          parse_result, fb_pc, fb_message, fb_reply>>

chat_vars == <<api_key, now, user_sessions, heap, req, returned, started,
               net_calls, uuids, wake_at, cleaned, sweep_errors, reaper_pc>>

parse_vars == <<parse_pc, parse_data, parse_result>>

fallback_vars == <<fb_pc, fb_message, fb_reply>>

---------------------------------------------------------------------------
(* Bounds of the model.                                                    *)

MaxRequests == 4      \* chat requests received in one behaviour
MaxTime == 3900       \* the reaper's last sweep is no later
MaxAppends == 8       \* add_message calls in one behaviour of SpecHistory
MaxSweepErrors == 1   \* sweeps that raise an exception in one behaviour

(* Program constants, in seconds.                                          *)

MaxHistory == 6
SessionIdleTimeout == 3600
ReaperInterval == 300
RemoteCallTimeout == 30
DumpLimit == 300

---------------------------------------------------------------------------
(* Optional values and small helpers.                                      *)

None == <<>>
Some(x) == <<x>>

Min(S) == CHOOSE x \in S : \A y \in S : x <= y

LastN(s, n) == IF Len(s) <= n THEN s ELSE SubSeq(s, Len(s) - n + 1, Len(s))

FirstN(s, n) == IF Len(s) <= n THEN s ELSE SubSeq(s, 1, n)

(* Python's `needle in hay` for strings: a contiguous occurrence.          *)
Contains(hay, needle) ==
    \E i \in 0..(Len(hay) - Len(needle)) :
        \A j \in 1..Len(needle) : hay[i + j] = needle[j]

---------------------------------------------------------------------------
(* UserSession (main.py:57-71).                                            *)

Turn(role, content) == [role |-> role, content |-> content]

NewSession(user_id, t) ==
    [user_id |-> user_id, messages |-> <<>>, created_at |-> t,
     last_activity |-> t, log |-> <<>>]

add_message_keep_first(session, role, content, t) ==
    LET all == Append(session.messages, Turn(role, content)) IN
    [session EXCEPT !.messages = FirstN(all, MaxHistory),
                    !.last_activity = t,
                    !.log = Append(@, Turn(role, content))]

add_message_keep_five(session, role, content, t) ==
    LET all == Append(session.messages, Turn(role, content)) IN
    [session EXCEPT
        !.messages = IF Len(all) > MaxHistory - 1
                     THEN SubSeq(all, Len(all) - MaxHistory + 2, Len(all))
                     ELSE all,
        !.last_activity = t,
        !.log = Append(@, Turn(role, content))]

add_message_clock_behind(session, role, content, t) ==
    LET all == Append(session.messages, Turn(role, content)) IN
    [session EXCEPT
        !.messages = IF Len(all) > MaxHistory
                     THEN SubSeq(all, Len(all) - MaxHistory + 1, Len(all))
                     ELSE all,
        !.last_activity = t - SessionIdleTimeout,
        !.log = Append(@, Turn(role, content))]

add_message(session, role, content, t) ==
    LET all == Append(session.messages, Turn(role, content)) IN
    [session EXCEPT
        !.messages = IF Len(all) > MaxHistory
                     THEN SubSeq(all, Len(all) - MaxHistory + 1, Len(all))
                     ELSE all,
        !.last_activity = t,
        !.log = Append(@, Turn(role, content))]

---------------------------------------------------------------------------
(* The response body of the provider and lines 274-310.                    *)
(*                                                                         *)
(* A body is a JSON object with the optional keys choices, content, data   *)
(* and output.  choices is a list of choice objects, a choice has the      *)
(* optional keys message (an object with the optional key content) and     *)
(* text; data is an object with the optional key choices; output is a      *)
(* string or an object with the optional key text.                         *)

Body(choices, content, data, output) ==
    [choices |-> choices, content |-> content, data |-> data,
     output |-> output]

Choice(message, text) == [message |-> message, text |-> text]

Message(content) == [content |-> content]

OutputStr(s) == [kind |-> "str", str |-> s, text |-> None]

OutputObj(text) == [kind |-> "dict", str |-> <<>>, text |-> text]

(* str(data): the keys present and their texts, in key order.              *)
ReprOpt(key, v) == IF v = None THEN <<>> ELSE <<key>> \o v[1]

ReprChoices(key, cs) ==
    IF cs = None THEN <<>>
    ELSE IF Len(cs[1]) = 0 THEN <<key, "[]">>
    ELSE LET c == cs[1][1] IN
         <<key>>
         \o (IF c.message = None THEN <<>>
             ELSE <<"message">> \o ReprOpt("content", c.message[1].content))
         \o ReprOpt("text", c.text)

Repr(data) ==
    <<"{">>
    \o ReprChoices("choices", data.choices)
    \o ReprOpt("content", data.content)
    \o (IF data.data = None THEN <<>>
        ELSE <<"data">> \o ReprChoices("choices", data.data[1].choices))
    \o (IF data.output = None THEN <<>>
        ELSE IF data.output[1].kind = "str"
             THEN <<"output">> \o data.output[1].str
             ELSE <<"output", "{">> \o ReprOpt("text", data.output[1].text))
    \o <<"}">>

(* Line 310: the diagnostic text with the first 300 characters of the dump. *)
Diagnostic(data) == <<"unrecognised-format">> \o FirstN(Repr(data), DumpLimit)

IsDiagnostic(text) == Len(text) > 0 /\ text[1] = "unrecognised-format"

(* Lines 275-301: ai_response, None or a text.                             *)
ExtractText(data) ==
    IF data.choices # None /\ Len(data.choices[1]) > 0
    THEN LET choice == data.choices[1][1] IN
         IF choice.message # None /\ choice.message[1].content # None
         THEN choice.message[1].content
         ELSE IF choice.text # None THEN choice.text
         ELSE None
    ELSE IF data.content # None
    THEN data.content
    ELSE IF data.data # None
    THEN IF data.data[1].choices # None /\ Len(data.data[1].choices[1]) > 0
         THEN LET choice == data.data[1].choices[1][1] IN
              IF choice.message # None /\ choice.message[1].content # None
              THEN choice.message[1].content
              ELSE None
         ELSE None
    ELSE IF data.output # None
    THEN IF data.output[1].kind = "str"
         THEN Some(data.output[1].str)
         ELSE IF data.output[1].text # None THEN data.output[1].text
         ELSE None
    ELSE None

(* Python's truth value of ai_response (line 303).                         *)
Truthy(opt) == opt # None /\ opt[1] # <<>>

(* Lines 303-310: what a status-200 response makes the client return.      *)
ParseResponseBody(data) ==
    LET ai_response == ExtractText(data) IN
    IF Truthy(ai_response) THEN ai_response[1] ELSE Diagnostic(data)

---------------------------------------------------------------------------
(* get_smart_response (main.py:324-350).                                   *)

LowerChar(c) ==
    CASE c = "H" -> "h"
      [] c = "I" -> "i"
      [] c = "E" -> "e"
      [] c = "L" -> "l"
      [] c = "O" -> "o"
      [] OTHER -> c

Lower(s) == [i \in 1..Len(s) |-> LowerChar(s[i])]

IsSpace(c) == c = " "

RECURSIVE LStrip(_)
LStrip(s) == IF Len(s) > 0 /\ IsSpace(s[1]) THEN LStrip(Tail(s)) ELSE s

RECURSIVE RStrip(_)
RStrip(s) ==
    IF Len(s) > 0 /\ IsSpace(s[Len(s)])
    THEN RStrip(SubSeq(s, 1, Len(s) - 1)) ELSE s

Strip(s) == RStrip(LStrip(s))

GreetingWords ==
    { <<"ni", "hao">>, <<"nin", "hao">>, <<"hai">>,
      <<"h", "e", "l", "l", "o">>, <<"h", "i">> }

GreetingReplies ==
    { <<"greeting-1">>, <<"greeting-2">>, <<"greeting-3">> }

(* antique_keywords, in declaration order.                                 *)
AntiqueKeywords ==
    << <<"tao", "ci">>, <<"qing", "tong", "qi">>, <<"shu", "hua">>,
       <<"yu", "qi">>, <<"jian", "ding">>, <<"shou", "cang">> >>

CannedReply(k) ==
    << <<"about-taoci">>, <<"about-qingtongqi">>, <<"about-shuhua">>,
       <<"about-yuqi">>, <<"about-jianding">>, <<"about-shoucang">> >>[k]

DefaultReply(original_message) ==
    <<"default-head">> \o original_message \o <<"default-tail">>

(* The set of texts get_smart_response may return (random.choice picks one *)
(* of the greetings).                                                      *)
get_smart_response_keywords_first(message, original_message) ==
    LET user_msg == Strip(Lower(message))
        hits == {k \in 1..Len(AntiqueKeywords) :
                    Contains(user_msg, AntiqueKeywords[k])}
    IN  IF hits # {}
        THEN {CannedReply(Min(hits))}
        ELSE IF \E w \in GreetingWords : Contains(user_msg, w)
        THEN GreetingReplies
        ELSE {DefaultReply(original_message)}

get_smart_response(message, original_message) ==
    LET user_msg == Strip(Lower(message))
        hits == {k \in 1..Len(AntiqueKeywords) :
                    Contains(user_msg, AntiqueKeywords[k])}
    IN  IF \E w \in GreetingWords : Contains(user_msg, w)
        THEN GreetingReplies
        ELSE IF hits # {}
        THEN {CannedReply(Min(hits))}
        ELSE {DefaultReply(original_message)}

---------------------------------------------------------------------------
(* The inputs of the model.                                                *)

Users == {"u1"}

(* ChatRequest.user_id missing (None, or the empty string: both falsy).    *)
NoUserId == ""

(* Line 357, str(uuid.uuid4())[:8]: eight hexadecimal digits of a random   *)
(* UUID, one of 2^32 values.  Nothing in the code makes a draw differ from *)
(* the keys already in user_sessions, whether a caller sent them or an     *)
(* earlier draw made them: a draw is either a key the store has not seen   *)
(* or one it holds.                                                        *)
UuidValues == {"anon-1"} \cup Users

(* Requests without a user_id in one behaviour.                            *)
MaxUuids == 1

(* ChatRequest.message: one message, with an upper-case letter and two of  *)
(* the fallback responder's keywords.                                      *)
Messages == { <<"L", "tao", "ci", "shou", "cang">> }

(* The instants at which chat requests arrive.                             *)
ArrivalTimes == {0, ReaperInterval, SessionIdleTimeout + ReaperInterval}

(* The chat requests that may be in flight at once.                        *)
Slots == {1, 2}

BodyPlain ==
    Body(Some(<<Choice(Some(Message(Some(<<"A">>))), None)>>),
         None, None, None)

BodyNoShape == Body(None, None, None, None)

(* A JSON value that is not a string: an array, written as a sequence that *)
(* starts with the token json-array.  A non-empty list is truthy and can   *)
(* be sliced (line 305), so the client returns it as it is.                *)
JsonArray(items) == <<"json-array">> \o items

IsText(v) == Len(v) = 0 \/ v[1] # "json-array"

BodyArrayContent == Body(None, Some(JsonArray(<<"A">>)), None, None)

(* The bodies the provider answers with in the chat model.                 *)
ChatBodies == {BodyPlain, BodyNoShape, BodyArrayContent}

(* How one session.post ends: a status-200 JSON body, another status,      *)
(* asyncio.TimeoutError, or any other exception.                           *)
NetOutcome(kind, body) == [kind |-> kind, body |-> body]

NetOutcomes ==
    {NetOutcome("ok", Some(b)) : b \in ChatBodies}
    \cup {NetOutcome(k, None) : k \in {"status", "timeout", "error"}}

SystemTurn == Turn("system", <<"system-prompt">>)

---------------------------------------------------------------------------
(* chat_endpoint and get_ai_response_with_memory.                          *)

IdleFrame ==
    [pc |-> "idle", user_id |-> NoUserId, message |-> <<>>, session |-> 0,
     sent |-> <<>>, deadline |-> 0]

(* ChatResponse (main.py:51-54) with the frame and the outcome of the      *)
(* remote call it answers; count numbers the responses given.              *)
Returned(frame, net, success, response, source) ==
    [count |-> returned.count + 1, user_id |-> frame.user_id,
     message |-> frame.message, session |-> frame.session, net |-> net,
     success |-> success, response |-> response, source |-> source]

NothingReturned ==
    [count |-> 0, user_id |-> NoUserId, message |-> <<>>, session |-> 0,
     net |-> NetOutcome("none", None), success |-> FALSE,
     response |-> <<>>, source |-> "none"]

(* Line 214: `if not BAICHUAN_API_KEY`.                                    *)
CredentialCheckSkipped == FALSE

CredentialMissing == ~api_key

(* Lines 359-362: the store and the heap after the lookup, and the object  *)
(* the handler holds.                                                      *)
Lookup(store, objects, id) == [store |-> store, heap |-> objects, id |-> id]

GetOrCreateAlwaysNew(store, objects, user_id, t) ==
    Lookup([u \in DOMAIN store \cup {user_id} |->
               IF u = user_id THEN Len(objects) + 1 ELSE store[u]],
           Append(objects, NewSession(user_id, t)),
           Len(objects) + 1)

GetOrCreateTouches(store, objects, user_id, t) ==
    IF user_id \notin DOMAIN store
    THEN Lookup([u \in DOMAIN store \cup {user_id} |->
                    IF u = user_id THEN Len(objects) + 1 ELSE store[u]],
                Append(objects, NewSession(user_id, t)),
                Len(objects) + 1)
    ELSE Lookup(store,
                [objects EXCEPT ![store[user_id]].last_activity = t],
                store[user_id])

GetOrCreate(store, objects, user_id, t) ==
    IF user_id \notin DOMAIN store
    THEN Lookup([u \in DOMAIN store \cup {user_id} |->
                    IF u = user_id THEN Len(objects) + 1 ELSE store[u]],
                Append(objects, NewSession(user_id, t)),
                Len(objects) + 1)
    ELSE Lookup(store, objects, store[user_id])

(* Lines 218-251: the conversation sent to the provider.                   *)
BuildMessagesNoSystem(message, message_history) ==
    message_history \o <<Turn("user", message)>>

BuildMessages(message, message_history) ==
    <<SystemTurn>> \o message_history \o <<Turn("user", message)>>

(* Lines 270-322: what the client returns once the call has ended.         *)
ClientResultLeaksError(net) ==
    IF net.kind = "ok" THEN Some(ParseResponseBody(net.body[1]))
    ELSE IF net.kind = "status" THEN Some(<<"error-text">>)
    ELSE None

ClientResult(net) ==
    IF net.kind = "ok" THEN Some(ParseResponseBody(net.body[1])) ELSE None

(* Lines 372-373 and 386-387: the two add_message calls, with no           *)
(* suspension point between them.                                          *)
AppendPairUserOnly(session, message, reply, t) ==
    add_message(session, "user", message, t)

AppendPair(session, message, reply, t) ==
    add_message(add_message(session, "user", message, t),
                "assistant", reply, t)

(* Line 383: get_smart_response(request.message.lower(), request.message), *)
(* tabulated for the messages of the model.                                *)
RuleResponses ==
    [m \in Messages |-> get_smart_response(Lower(m), m)]

(* Lines 370-395: the replies the handler may give for a client result.    *)
RepliesNeverRemote(ai_response, message) ==
    {[response |-> x, source |-> "rule_based"] : x \in RuleResponses[message]}

Replies(ai_response, message) ==
    IF Truthy(ai_response)
    THEN {[response |-> ai_response[1], source |-> "baichuan"]}
    ELSE {[response |-> x, source |-> "rule_based"] :
             x \in RuleResponses[message]}

(* Lines 376-380, 391-402: the ChatResponse the handler gives.  ChatResponse *)
(* declares response: str, so constructing it from a reply that is not a   *)
(* string raises a ValidationError, which line 397 catches.                *)
Apology == <<"apology">>

ChatResponseFallbackFails(reply) ==
    IF IsText(reply.response) /\ reply.source # "rule_based"
    THEN [success |-> TRUE, response |-> reply.response,
          source |-> reply.source]
    ELSE [success |-> FALSE, response |-> Apology, source |-> "none"]

ChatResponse(reply) ==
    IF IsText(reply.response)
    THEN [success |-> TRUE, response |-> reply.response,
          source |-> reply.source]
    ELSE [success |-> FALSE, response |-> Apology, source |-> "none"]

(* Line 265: ClientTimeout(total=30) bounds the whole call, the reading of *)
(* the body included; it expires 30 seconds after the call was issued.     *)
DeadlineMissed(at) == at - 1

Deadline(at) == at + RemoteCallTimeout

(* The timers that are running: the reaper's asyncio.sleep(300) and the    *)
(* 30 second ClientTimeout of every pending remote call.  An event can     *)
(* happen at time t when no timer is due before t.                         *)
Timers == {wake_at} \cup {req[r].deadline : r \in {q \in Slots :
                                                     req[q].pc = "awaiting"}}

NoTimerBefore(t) == now <= t /\ \A x \in Timers : t <= x

(* The lowest handler slot that holds no suspended request.                *)
FreeSlot(r) ==
    /\ req[r].pc # "awaiting"
    /\ \A q \in Slots : q < r => req[q].pc = "awaiting"

(* A request arrives at time at: lines 355-368 up to the suspension in     *)
(* session.post, or, with no credential, the whole handler (the client     *)
(* returns None without suspending).                                       *)
ChatRequest(r, uid, uuid4, message, at) ==
    /\ FreeSlot(r)
    /\ started < MaxRequests
    /\ NoTimerBefore(at)
    /\ now' = at
    /\ uid = NoUserId => uuids < MaxUuids
    /\ LET user_id == IF uid # NoUserId THEN uid ELSE uuid4
           got == GetOrCreate(user_sessions, heap, user_id, at)
           session == got.heap[got.id]
           frame == [IdleFrame EXCEPT !.user_id = user_id,
                                      !.message = message,
                                      !.session = got.id]
       IN  /\ started' = started + 1
           /\ uuids' = IF uid # NoUserId THEN uuids ELSE uuids + 1
           /\ user_sessions' = got.store
           /\ IF CredentialMissing
              THEN \E reply \in Replies(None, message) :
                     /\ heap' = [got.heap EXCEPT ![got.id] =
                                   AppendPair(session, message,
                                              reply.response, at)]
                     /\ returned' =
                           LET out == ChatResponse(reply) IN
                           Returned(frame, NetOutcome("nokey", None),
                                    out.success, out.response, out.source)
                     /\ UNCHANGED <<req, net_calls>>
              ELSE /\ heap' = got.heap
                   /\ UNCHANGED returned
                   /\ req' = [req EXCEPT ![r] =
                                [frame EXCEPT
                                   !.pc = "awaiting",
                                   !.sent = BuildMessages(message,
                                                          session.messages),
                                   !.deadline = Deadline(at)]]
                   /\ net_calls' = net_calls + 1
    /\ UNCHANGED <<api_key, wake_at, cleaned, sweep_errors, reaper_pc,
                   parse_vars, fallback_vars>>

(* The remote call ends: lines 270-322, then lines 370-395.  A timeout     *)
(* ends it when its 30 seconds are over, another outcome at the present    *)
(* time.                                                                   *)
ChatResume(r, net) ==
    /\ req[r].pc = "awaiting"
    /\ LET frame == req[r]
           at == IF net.kind = "timeout" THEN frame.deadline ELSE now
           ai_response == ClientResult(net)
       IN  /\ NoTimerBefore(at)
           /\ now' = at
           /\ \E reply \in Replies(ai_response, frame.message) :
                /\ heap' = [heap EXCEPT ![frame.session] =
                              AppendPair(@, frame.message, reply.response,
                                         at)]
                /\ returned' =
                      LET out == ChatResponse(reply) IN
                      Returned(frame, net, out.success, out.response,
                               out.source)
                /\ req' = [req EXCEPT ![r] = IdleFrame]
    /\ UNCHANGED <<api_key, user_sessions, started, net_calls, uuids,
                   wake_at, cleaned, sweep_errors, reaper_pc, parse_vars,
                   fallback_vars>>

---------------------------------------------------------------------------
(* cleanup_sessions (main.py:405-425).                                     *)

(* Lines 411-414: expired_users.                                           *)
ExpiredUsersInclusive(store, objects, t) ==
    {u \in DOMAIN store :
        t - objects[store[u]].last_activity >= SessionIdleTimeout}

ExpiredUsersTwoHours(store, objects, t) ==
    {u \in DOMAIN store :
        t - objects[store[u]].last_activity > 2 * SessionIdleTimeout}

ExpiredUsers(store, objects, t) ==
    {u \in DOMAIN store :
        t - objects[store[u]].last_activity > SessionIdleTimeout}

(* How one pass of the try block (lines 409-422) ends: normally, or with   *)
(* an exception raised before the deletions (lines 410-414) or after them  *)
(* (lines 419-422).                                                        *)
SweepOutcomes == {"done", "raised-early", "raised-late"}

(* Lines 424-425: the except clause is inside the while loop, so after an  *)
(* exception the task goes on to the next asyncio.sleep.                   *)
AfterSweepErrorStops == "stopped"

AfterSweepError == "sleeping"

(* asyncio.sleep(300) ends, at wake_at, and the loop body runs once.       *)
Sweep(outcome) ==
    /\ reaper_pc = "sleeping"
    /\ wake_at <= MaxTime
    /\ outcome # "done" => sweep_errors < MaxSweepErrors
    /\ NoTimerBefore(wake_at)
    /\ now' = wake_at
    /\ LET expired_users == ExpiredUsers(user_sessions, heap, wake_at) IN
         /\ user_sessions' =
               IF outcome = "raised-early" THEN user_sessions
               ELSE [u \in DOMAIN user_sessions \ expired_users |->
                        user_sessions[u]]
         /\ cleaned' = IF outcome = "done" THEN Cardinality(expired_users)
                       ELSE 0
    /\ sweep_errors' = IF outcome = "done" THEN sweep_errors
                       ELSE sweep_errors + 1
    /\ reaper_pc' = IF outcome = "done" THEN "sleeping" ELSE AfterSweepError
    /\ wake_at' = wake_at + ReaperInterval
    /\ UNCHANGED <<api_key, heap, req, returned, started, net_calls, uuids,
                   parse_vars, fallback_vars>>

---------------------------------------------------------------------------
(* The chat service.                                                       *)

Init ==
    /\ api_key \in BOOLEAN
    /\ now = 0
    /\ user_sessions = [u \in {} |-> 0]
    /\ heap = <<>>
    /\ req = [r \in Slots |-> IdleFrame]
    /\ returned = NothingReturned
    /\ started = 0
    /\ net_calls = 0
    /\ uuids = 0
    /\ wake_at = ReaperInterval
    /\ cleaned = 0
    /\ sweep_errors = 0
    /\ reaper_pc = "sleeping"
    /\ parse_pc = "off"
    /\ parse_data = BodyNoShape
    /\ parse_result = <<>>
    /\ fb_pc = "off"
    /\ fb_message = <<>>
    /\ fb_reply = <<>>

Next ==
    \/ \E r \in Slots, uid \in Users \cup {NoUserId}, uuid4 \in UuidValues,
          m \in Messages, at \in ArrivalTimes :
             ChatRequest(r, uid, uuid4, m, at)
    \/ \E r \in Slots, net \in NetOutcomes : ChatResume(r, net)
    \/ \E outcome \in SweepOutcomes : Sweep(outcome)

Spec == Init /\ [][Next]_vars

(* The event loop runs every timer that is due: the reaper's sleep ends    *)
(* and the 30 second timeout of a pending remote call expires.  Whether    *)
(* the provider ever answers is not its to decide.  (A sweep changes       *)
(* wake_at and a resumption changes req, always.)                          *)
FairSpec ==
    /\ Spec
    /\ WF_wake_at(\E outcome \in SweepOutcomes : Sweep(outcome))
    /\ \A r \in Slots : WF_req(ChatResume(r, NetOutcome("timeout", None)))

---------------------------------------------------------------------------
(* UserSession.add_message on its own: any sequence of calls on one        *)
(* session.                                                                *)

HistoryRoles == {"user", "assistant"}

HistoryContents == { <<"x">>, <<"A">> }

InitHistory ==
    /\ api_key = TRUE
    /\ now = 0
    /\ user_sessions = [u \in {"u1"} |-> 1]
    /\ heap = <<NewSession("u1", 0)>>
    /\ req = [r \in Slots |-> IdleFrame]
    /\ returned = NothingReturned
    /\ started = 0
    /\ net_calls = 0
    /\ uuids = 0
    /\ wake_at = ReaperInterval
    /\ cleaned = 0
    /\ sweep_errors = 0
    /\ reaper_pc = "sleeping"
    /\ parse_pc = "off"
    /\ parse_data = BodyNoShape
    /\ parse_result = <<>>
    /\ fb_pc = "off"
    /\ fb_message = <<>>
    /\ fb_reply = <<>>

AddMessage(role, content) ==
    /\ Len(heap[1].log) < MaxAppends
    /\ heap' = [heap EXCEPT ![1] = add_message(@, role, content, now)]
    /\ UNCHANGED <<api_key, now, user_sessions, req, returned, started,
                   net_calls, uuids, wake_at, cleaned, sweep_errors,
                   reaper_pc, parse_vars, fallback_vars>>

NextHistory ==
    \E role \in HistoryRoles, content \in HistoryContents :
        AddMessage(role, content)

SpecHistory == InitHistory /\ [][NextHistory]_vars

---------------------------------------------------------------------------
(* Lines 274-310 on their own: one status-200 body, parsed.                *)

OptTexts(t) == {None, Some(<<>>), Some(<<t>>)}

OptMessages(t) ==
    {None, Some(Message(None)), Some(Message(Some(<<>>))),
     Some(Message(Some(<<t>>)))}

ChoicesValues ==
    {None, Some(<<>>)}
    \cup {Some(<<Choice(m, t)>>) : m \in OptMessages("t1"),
                                  t \in OptTexts("t2")}

DataValues ==
    {None, Some([choices |-> None]), Some([choices |-> Some(<<>>)])}
    \cup {Some([choices |-> Some(<<Choice(m, None)>>)]) :
             m \in OptMessages("t4")}

OutputValues ==
    {None}
    \cup {Some(OutputStr(str)) : str \in {<<>>, <<"t5">>}}
    \cup {Some(OutputObj(t)) : t \in OptTexts("t5")}

Bodies ==
    {Body(c, t, d, o) : c \in ChoicesValues, t \in OptTexts("t3"),
                        d \in DataValues, o \in OutputValues}

InitParse ==
    /\ api_key = TRUE
    /\ now = 0
    /\ user_sessions = [u \in {} |-> 0]
    /\ heap = <<>>
    /\ req = [r \in Slots |-> IdleFrame]
    /\ returned = NothingReturned
    /\ started = 0
    /\ net_calls = 0
    /\ uuids = 0
    /\ wake_at = ReaperInterval
    /\ cleaned = 0
    /\ sweep_errors = 0
    /\ reaper_pc = "sleeping"
    /\ parse_pc = "ready"
    /\ parse_data \in Bodies
    /\ parse_result = <<>>
    /\ fb_pc = "off"
    /\ fb_message = <<>>
    /\ fb_reply = <<>>

ParseBody ==
    /\ parse_pc = "ready"
    /\ parse_result' = ParseResponseBody(parse_data)
    /\ parse_pc' = "parsed"
    /\ UNCHANGED <<chat_vars, parse_data, fallback_vars>>

NextParse == ParseBody

SpecParse == InitParse /\ [][NextParse]_vars

---------------------------------------------------------------------------
(* get_smart_response on its own: one message, answered as chat_endpoint   *)
(* calls it in line 383.                                                   *)

MaxMessageLen == 4

MessageChars == {"H", "i", "ni", "hao", "tao", "ci", "shou", "cang", " "}

RECURSIVE TextsOfLen(_)
TextsOfLen(n) ==
    IF n = 0 THEN {<<>>}
    ELSE {Append(t, c) : t \in TextsOfLen(n - 1), c \in MessageChars}

FallbackMessages == UNION {TextsOfLen(n) : n \in 0..MaxMessageLen}

InitFallback ==
    /\ api_key = TRUE
    /\ now = 0
    /\ user_sessions = [u \in {} |-> 0]
    /\ heap = <<>>
    /\ req = [r \in Slots |-> IdleFrame]
    /\ returned = NothingReturned
    /\ started = 0
    /\ net_calls = 0
    /\ uuids = 0
    /\ wake_at = ReaperInterval
    /\ cleaned = 0
    /\ sweep_errors = 0
    /\ reaper_pc = "sleeping"
    /\ parse_pc = "off"
    /\ parse_data = BodyNoShape
    /\ parse_result = <<>>
    /\ fb_pc = "ready"
    /\ fb_message \in FallbackMessages
    /\ fb_reply = <<>>

Respond ==
    /\ fb_pc = "ready"
    /\ fb_reply' \in get_smart_response(Lower(fb_message), fb_message)
    /\ fb_pc' = "replied"
    /\ UNCHANGED <<chat_vars, parse_vars, fb_message>>

NextFallback == Respond

SpecFallback == InitFallback /\ [][NextFallback]_vars

---------------------------------------------------------------------------
(* The properties checked of the model.                                    *)

Objects == 1..Len(heap)

(* A request returned its ChatResponse in this step.                       *)
Completed == returned'.count = returned.count + 1

(* The history and the log of object i before this step (empty when the    *)
(* step constructs it).                                                    *)
PriorMessages(i) == IF i <= Len(heap) THEN heap[i].messages ELSE <<>>

PriorLog(i) == IF i <= Len(heap) THEN heap[i].log ELSE <<>>

Pair(message, reply) == <<Turn("user", message), Turn("assistant", reply)>>

(* This step appended the pair to object i, trimming to six entries.       *)
PairAppended(i, message, reply) ==
    /\ i \in 1..Len(heap')
    /\ heap'[i].messages =
          LastN(PriorMessages(i) \o Pair(message, reply), MaxHistory)
    /\ heap'[i].log = PriorLog(i) \o Pair(message, reply)

(* The assistant text the request that returned in this step appended: the *)
(* reply it returned, or, when it returned the apology, the client's       *)
(* result that could not be returned.                                      *)
StoredReply ==
    IF returned'.success THEN returned'.response
    ELSE ClientResult(returned'.net)[1]

(* The five documented response shapes, in priority order, and the text of *)
(* the first one that holds a non-empty text (None when there is none).    *)
ShapeTexts(data) ==
    LET c == IF data.choices # None /\ Len(data.choices[1]) > 0
             THEN Some(data.choices[1][1]) ELSE None
        d == IF data.data # None /\ data.data[1].choices # None
                /\ Len(data.data[1].choices[1]) > 0
             THEN Some(data.data[1].choices[1][1]) ELSE None
    IN  << IF c # None /\ c[1].message # None
           THEN c[1].message[1].content ELSE None,
           IF c # None THEN c[1].text ELSE None,
           data.content,
           IF d # None /\ d[1].message # None
           THEN d[1].message[1].content ELSE None,
           IF data.output = None THEN None
           ELSE IF data.output[1].kind = "str"
                THEN Some(data.output[1].str)
                ELSE data.output[1].text >>

FirstNonEmptyShape(data) ==
    LET texts == ShapeTexts(data)
        hits == {k \in 1..Len(texts) : Truthy(texts[k])}
    IN  IF hits = {} THEN None ELSE texts[Min(hits)]

(* C1: after every add_message call, in any sequence of calls on a         *)
(* session, the history has at most 6 entries and they are exactly the     *)
(* most recent min(n, 6) of the n turns ever appended, in their order.     *)
C1_HistoryIsMostRecentSix ==
    \A i \in Objects :
        LET n == Len(heap[i].log)
            kept == Len(heap[i].messages)
        IN  /\ kept <= 6
            /\ kept = IF n < 6 THEN n ELSE 6
            /\ \A k \in 1..kept :
                  heap[i].messages[k] = heap[i].log[n - kept + k]

C1_Witness ==
    /\ Len(heap[1].log) >= 8
    /\ Len(heap[1].messages) = 6
    /\ heap[1].messages[1] # heap[1].log[1]

(* C2: whenever a request appends its pair, the session it appends to is   *)
(* the session stored under its user_id: the reaper has not evicted the    *)
(* session between the request's lookup and its append.                    *)
C2_AppendsToStoredSession ==
    [][\A r \in Slots :
          (req[r].pc = "awaiting" /\ req'[r].pc = "idle")
          => /\ req[r].user_id \in DOMAIN user_sessions
             /\ user_sessions[req[r].user_id] = req[r].session]_vars

(* C3: at every suspension point every session, for any number of          *)
(* concurrent requests, holds only complete (user, assistant) pairs, and   *)
(* every step that appends to a session appends one request's whole pair,  *)
(* contiguously, and nothing else.                                         *)
PairedTurns(turns) ==
    /\ Len(turns) % 2 = 0
    /\ \A k \in 1..Len(turns) :
          turns[k].role = IF k % 2 = 1 THEN "user" ELSE "assistant"

C3_OnlyWholePairs ==
    /\ [](\A i \in Objects :
             /\ PairedTurns(heap[i].log)
             /\ Len(heap[i].messages) % 2 = 0
             /\ (heap[i].messages # <<>>
                 => heap[i].messages[Len(heap[i].messages)].role
                        = "assistant"))
    /\ [][\A i \in 1..Len(heap') :
             \/ heap'[i].log = PriorLog(i)
             \/ /\ Completed
                /\ returned'.session = i
                /\ heap'[i].log =
                      PriorLog(i) \o Pair(returned'.message,
                                          StoredReply)]_vars

(* Another request's pair was appended to the session while this request   *)
(* was suspended in its remote call.                                       *)
C3_Witness ==
    \E r \in Slots :
        /\ req[r].pc = "awaiting"
        /\ Len(req[r].sent) = 2
        /\ Len(heap[req[r].session].log) >= 2
        /\ \E q \in Slots : q # r /\ req[q].pc = "awaiting"
                            /\ req[q].session = req[r].session

(* C4: a status-200 body that matches none of the known shapes is handled  *)
(* as a provider failure: the reply is the fallback responder's, with      *)
(* source rule_based, and the diagnostic text is neither returned nor      *)
(* stored in a history.                                                    *)
C4_UnparseableFallsBack ==
    /\ (returned.net.kind = "ok"
        /\ FirstNonEmptyShape(returned.net.body[1]) = None)
       => /\ returned.source = "rule_based"
          /\ returned.response \in
                get_smart_response(Lower(returned.message), returned.message)
    /\ ~IsDiagnostic(returned.response)
    /\ \A i \in Objects : \A k \in 1..Len(heap[i].log) :
          ~IsDiagnostic(heap[i].log[k].content)

(* C5: for every status-200 body the client's result is the text of the    *)
(* first shape, in priority order, that holds a non-empty text.            *)
C5_FirstNonEmptyShapeWins ==
    (parse_pc = "parsed" /\ FirstNonEmptyShape(parse_data) # None)
    => parse_result = FirstNonEmptyShape(parse_data)[1]

(* C6: for every kind of provider failure (no credential, a status other   *)
(* than 200, a timeout, a transport error) the request returns success     *)
(* with source rule_based and a reply of the fallback responder, and       *)
(* appends exactly (user, message), (assistant, reply) to the session.     *)
C6_FailureFallsBack ==
    [][(Completed
        /\ returned'.net.kind \in {"nokey", "status", "timeout", "error"})
       => /\ returned'.success = TRUE
          /\ returned'.source = "rule_based"
          /\ returned'.response \in
                get_smart_response(Lower(returned'.message),
                                   returned'.message)
          /\ PairAppended(returned'.session, returned'.message,
                          returned'.response)]_vars

C6_Witness ==
    /\ returned.net.kind = "timeout"
    /\ returned.source = "rule_based"
    /\ Len(heap[returned.session].log) = 8
    /\ Len(heap[returned.session].messages) = 6

(* C7: when the client extracts a non-empty reply text r (a string) from    *)
(* the provider's answer to a request with message m, the request returns  *)
(* success, source baichuan and reply r, and the history is the prior      *)
(* history with (user, m), (assistant, r) appended, trimmed to 6 entries.  *)
C7_RemoteReplyReturnedAndStored ==
    [][(Completed /\ returned'.net.kind = "ok"
        /\ Truthy(ExtractText(returned'.net.body[1]))
        /\ IsText(ExtractText(returned'.net.body[1])[1]))
       => /\ returned'.success = TRUE
          /\ returned'.source = "baichuan"
          /\ returned'.response = ExtractText(returned'.net.body[1])[1]
          /\ PairAppended(returned'.session, returned'.message,
                          returned'.response)]_vars

C7_Witness ==
    /\ returned.net.kind = "ok"
    /\ returned.source = "baichuan"
    /\ returned.response = <<"A">>
    /\ Len(heap[returned.session].log) = 8
    /\ Len(heap[returned.session].messages) = 6
    /\ heap[returned.session].log[Len(heap[returned.session].log)]
          = Turn("assistant", <<"A">>)

(* C8: with no credential configured the client issues no network request, *)
(* in any request and any state, and every request completes with success  *)
(* and source rule_based.                                                  *)
C8_NoCredentialNoNetwork ==
    ~api_key
    => /\ net_calls = 0
       /\ \A r \in Slots : req[r].pc = "idle"
       /\ returned.count = started
       /\ returned.count > 0
          => /\ returned.success = TRUE
             /\ returned.source = "rule_based"
             /\ returned.net.kind = "nokey"

C8_Witness ==
    /\ ~api_key
    /\ returned.count >= 2
    /\ returned.source = "rule_based"

(* C9: one sweep that runs to its end removes every session whose          *)
(* last_activity is older than                                             *)
(* now minus one hour and no other; a session within the threshold, or     *)
(* exactly at it, stays in the store with an unchanged history, and the     *)
(* count reported is the number removed.                                   *)
C9_SweepRemovesExactlyIdle ==
    [][(wake_at' # wake_at /\ sweep_errors' = sweep_errors)
       => /\ \A u \in DOMAIN user_sessions :
                IF heap[user_sessions[u]].last_activity
                      < now' - SessionIdleTimeout
                THEN u \notin DOMAIN user_sessions'
                ELSE /\ u \in DOMAIN user_sessions'
                     /\ user_sessions'[u] = user_sessions[u]
          /\ DOMAIN user_sessions' \subseteq DOMAIN user_sessions
          /\ heap' = heap
          /\ cleaned' = Cardinality(DOMAIN user_sessions
                                    \ DOMAIN user_sessions')]_vars

(* Right after a sweep that removed one session and kept one that is       *)
(* exactly at the threshold.                                               *)
C9_Witness ==
    /\ wake_at = now + ReaperInterval
    /\ now >= SessionIdleTimeout
    /\ cleaned = 1
    /\ \E u \in DOMAIN user_sessions :
          /\ heap[user_sessions[u]].last_activity = now - SessionIdleTimeout
          /\ heap[user_sessions[u]].messages # <<>>

(* C10: a second lookup of a user_id, with no eviction in between, returns *)
(* the same session object, creates none and changes no session; two       *)
(* suspended requests of one user hold the same object unless the older    *)
(* object has been evicted in between.                                     *)
C10_LookupIdempotent ==
    /\ \A u \in Users \cup UuidValues \cup {"u2"} :
          LET first == GetOrCreate(user_sessions, heap, u, now)
              second == GetOrCreate(first.store, first.heap, u, now + 1)
          IN  /\ second.id = first.id
              /\ second.store = first.store
              /\ second.heap = first.heap
    /\ \A r, q \in Slots :
          (req[r].pc = "awaiting" /\ req[q].pc = "awaiting"
           /\ req[r].user_id = req[q].user_id
           /\ req[r].session < req[q].session)
          => \A u \in DOMAIN user_sessions :
                user_sessions[u] # req[r].session

C10_Witness ==
    \E r, q \in Slots :
        /\ r # q
        /\ req[r].pc = "awaiting" /\ req[q].pc = "awaiting"
        /\ req[r].user_id = req[q].user_id
        /\ req[r].session = req[q].session
        /\ heap[req[r].session].messages # <<>>

(* The provider-side failures: the client returns None.                    *)
ProviderFailures == {"nokey", "status", "timeout", "error"}

Awaiting == {r \in Slots : req[r].pc = "awaiting"}

(* C11: every chat request ends in exactly one of three outcomes: success   *)
(* with source baichuan, success with source rule_based, or no success     *)
(* with the apology text and no source; every request that stops running   *)
(* has returned a ChatResponse (no error leaves the handler); and a        *)
(* response without success is never the answer to a provider-side         *)
(* failure, only to an exception raised inside the handler.                *)
C11_ThreeOutcomes ==
    /\ [](returned.count + Cardinality(Awaiting) = started)
    /\ [][Completed
          => /\ \/ /\ returned'.success
                   /\ returned'.source = "baichuan"
                \/ /\ returned'.success
                   /\ returned'.source = "rule_based"
                \/ /\ ~returned'.success
                   /\ returned'.response = Apology
                   /\ returned'.source = "none"
             /\ ~returned'.success
                => /\ returned'.net.kind \notin ProviderFailures
                   /\ ~IsText(ClientResult(returned'.net)[1])]_vars

(* A request was answered with the apology after two others succeeded, one *)
(* by the provider and one by the fallback responder.                      *)
C11_Witness ==
    /\ ~returned.success
    /\ returned.response = Apology
    /\ returned.count = 3
    /\ \E k \in 1..Len(heap[returned.session].log) :
          heap[returned.session].log[k].content
             \in get_smart_response(Lower(returned.message),
                                    returned.message)
    /\ \E k \in 1..Len(heap[returned.session].log) :
          heap[returned.session].log[k] = Turn("assistant", <<"A">>)

(* C12: a request that resolves its session and suspends in the remote     *)
(* call changes no existing session (a session it creates is empty, with   *)
(* last_activity = created_at); while it is suspended, a session changes   *)
(* only by the completion of a request, which appends that request's one   *)
(* (user, assistant) pair to its session and nothing else; and after a     *)
(* timeout or another failure of the call the assistant turn of the pair   *)
(* is the fallback responder's reply: nothing of the call is stored.       *)
C12_NothingBeforeResult ==
    [][/\ \A r \in Slots :
             (req[r].pc # "awaiting" /\ req'[r].pc = "awaiting")
             => /\ \A i \in Objects : heap'[i] = heap[i]
                /\ req'[r].session > Len(heap)
                   => heap'[req'[r].session] =
                         NewSession(req'[r].user_id, now')
       /\ \A i \in Objects :
             heap'[i] # heap[i]
             => /\ Completed
                /\ returned'.session = i
                /\ \A r \in Slots : req'[r].pc = "awaiting" => req'[r] = req[r]
                /\ heap'[i].log =
                      heap[i].log \o Pair(returned'.message, StoredReply)
                /\ heap'[i].messages =
                      LastN(heap[i].messages
                            \o Pair(returned'.message, StoredReply),
                            MaxHistory)
                /\ heap'[i].last_activity = now'
                /\ heap'[i].created_at = heap[i].created_at
                /\ \A j \in Objects \ {i} : heap'[j] = heap[j]
                /\ returned'.net.kind \in ProviderFailures
                   => StoredReply \in
                         get_smart_response(Lower(returned'.message),
                                            returned'.message)]_vars

(* A request whose call timed out: its session was untouched for the 30    *)
(* seconds of the call and then got the one pair.                          *)
C12_Witness ==
    /\ returned.net.kind = "timeout"
    /\ Len(heap[returned.session].log) = 2
    /\ heap[returned.session].last_activity =
          heap[returned.session].created_at + RemoteCallTimeout
    /\ Awaiting # {}

(* C13: for every message get_smart_response returns one of the three      *)
(* greetings if the lower-cased message contains a greeting word, whatever  *)
(* keywords it also contains; otherwise the canned text of the first       *)
(* keyword, in declaration order, that the message contains; otherwise the *)
(* default text around the original message.  It returns for every         *)
(* message and touches nothing of the service's state.                     *)
C13_FallbackReply ==
    /\ [](LET low == Lower(fb_message)
              found == {k \in 1..6 : Contains(low, AntiqueKeywords[k])}
          IN  /\ Cardinality(GreetingReplies) = 3
              /\ fb_pc = "ready"
                 => get_smart_response(low, fb_message) # {}
              /\ fb_pc = "replied"
                 => IF \E w \in GreetingWords : Contains(low, w)
                    THEN fb_reply \in GreetingReplies
                    ELSE IF found # {}
                    THEN \E k \in found :
                           /\ \A j \in found : k <= j
                           /\ fb_reply = CannedReply(k)
                    ELSE fb_reply = DefaultReply(fb_message))
    /\ [][fb_pc' # fb_pc => UNCHANGED chat_vars]_vars

(* An upper-case greeting before the first and the last keyword, answered  *)
(* by a greeting.                                                          *)
C13_Witness ==
    /\ fb_pc = "replied"
    /\ fb_message = <<"H", "i", "tao", "ci">>
    /\ fb_reply \in GreetingReplies

(* C14: the reaper task never leaves its loop: a sweep that raises an      *)
(* exception changes neither a request nor a session, the task sleeps      *)
(* again for the interval, and the sweeps after it are performed (all that *)
(* are due up to MaxTime).                                                 *)
C14_ReaperSurvivesErrors ==
    /\ [](reaper_pc = "sleeping")
    /\ [][sweep_errors' # sweep_errors
          => /\ wake_at' = now' + ReaperInterval
             /\ reaper_pc' = "sleeping"
             /\ UNCHANGED <<heap, req, returned, started>>]_vars
    /\ <>(wake_at > MaxTime)

(* A sweep that removed a session, after an earlier sweep had raised.      *)
C14_Witness ==
    /\ sweep_errors >= 1
    /\ cleaned >= 1
    /\ wake_at = now + ReaperInterval

(* The sweeps, up to MaxTime, at which a session whose last turn was       *)
(* appended at time t is older than the idle timeout.                      *)
SweepTimes == {k * ReaperInterval : k \in 1..(MaxTime \div ReaperInterval)}

DueSweeps(t) == {w \in SweepTimes : w > t + SessionIdleTimeout}

(* C15: with the reaper running, a session to which no more turns are      *)
(* appended is eventually removed from the store: from some point on,      *)
(* every session in the store had its last turn appended so late that the  *)
(* sweeps due for it (up to MaxTime) are no more than the sweeps that      *)
(* raised; a session is still stored at the end only because turns were    *)
(* appended to it within the last hour.                                    *)
C15_IdleSessionsRemoved ==
    <>[](\A u \in DOMAIN user_sessions :
            Cardinality(DueSweeps(heap[user_sessions[u]].last_activity))
               <= sweep_errors)

(* After the last sweep, none of which raised: a session that got turns at *)
(* 0 and again at 300 is still stored, one left alone since 0 is gone.     *)
C15_Witness ==
    /\ wake_at > MaxTime
    /\ sweep_errors = 0
    /\ \E u \in DOMAIN user_sessions :
          /\ heap[user_sessions[u]].created_at = 0
          /\ heap[user_sessions[u]].last_activity = ReaperInterval
          /\ Len(heap[user_sessions[u]].log) >= 4
    /\ \E i \in Objects :
          /\ heap[i].log # <<>>
          /\ heap[i].last_activity < ReaperInterval
          /\ \A u \in DOMAIN user_sessions : user_sessions[u] # i

(* C16: every chat request that is suspended in its remote call eventually *)
(* returns a response, whatever the other requests and the reaper do and   *)
(* whether or not the provider ever answers.                               *)
C16_EveryRequestReturns ==
    \A r \in Slots : (req[r].pc = "awaiting") ~> (req[r].pc = "idle")

(* All the requests of a behaviour have returned, the last one when its    *)
(* call, issued after the last sweep was due, timed out.                   *)
C16_Witness ==
    /\ started = MaxRequests
    /\ returned.count = started
    /\ Awaiting = {}
    /\ returned.net.kind = "timeout"
    /\ now > MaxTime

(* C17: the last_activity of a session never decreases, is never earlier   *)
(* than its created_at, and changes only in a step that appends turns to   *)
(* the session; created_at never changes.                                  *)
C17_LastActivityMonotone ==
    /\ [](\A i \in Objects : heap[i].created_at <= heap[i].last_activity)
    /\ [][\A i \in Objects :
             /\ i <= Len(heap')
             /\ heap'[i].created_at = heap[i].created_at
             /\ heap'[i].last_activity >= heap[i].last_activity
             /\ heap'[i].last_activity # heap[i].last_activity
                => Len(heap'[i].log) > Len(heap[i].log)]_vars

(* A session created at 0 that got turns at three later instants.          *)
C17_Witness ==
    \E i \in Objects :
        /\ heap[i].created_at = 0
        /\ heap[i].last_activity > SessionIdleTimeout
        /\ Len(heap[i].log) >= 6
        /\ \E u \in DOMAIN user_sessions : user_sessions[u] = i

(* C18: the conversation a request sends to the provider is the system     *)
(* turn, then the history of its session as it stands when the request     *)
(* resolves the session, in order, then one user turn with the request's   *)
(* message: at most 8 turns, one system turn only.  Issuing the call       *)
(* changes no history, and what was sent stays as it was sent while the    *)
(* request is suspended.                                                   *)
C18_SentConversation ==
    [][\A r \in Slots :
          /\ (req[r].pc # "awaiting" /\ req'[r].pc = "awaiting")
             => LET f == req'[r]
                    history == PriorMessages(f.session)
                IN  /\ Len(f.sent) = Len(history) + 2
                    /\ Len(f.sent) <= 8
                    /\ f.sent[1] = SystemTurn
                    /\ \A k \in 1..Len(history) : f.sent[k + 1] = history[k]
                    /\ f.sent[Len(f.sent)] = Turn("user", f.message)
                    /\ \A k \in 2..Len(f.sent) : f.sent[k].role # "system"
                    /\ heap'[f.session].messages = history
                    /\ \A i \in Objects : heap'[i] = heap[i]
          /\ (req[r].pc = "awaiting" /\ req'[r].pc = "awaiting")
             => req'[r].sent = req[r].sent]_vars

(* A suspended request that sent a history of four turns, to whose session *)
(* another request has appended since, so that the history is now full.    *)
C18_Witness ==
    \E r \in Slots :
        /\ req[r].pc = "awaiting"
        /\ Len(req[r].sent) = 6
        /\ Len(heap[req[r].session].messages) = MaxHistory
        /\ SubSeq(req[r].sent, 2, 5) =
              SubSeq(heap[req[r].session].messages, 1, 4)

(* C19: a request without a user_id always gets a new, empty session: it   *)
(* adds one session to the store, and the conversation sent with it holds  *)
(* no earlier turn, whatever the earlier requests did.                     *)
C19_AnonymousAlwaysNew ==
    [][uuids' = uuids + 1 =>
          /\ Len(heap') = Len(heap) + 1
          /\ Cardinality(DOMAIN user_sessions') =
                Cardinality(DOMAIN user_sessions) + 1
          /\ \A r \in Slots :
                (req'[r].pc = "awaiting" /\ req[r].pc # "awaiting")
                => req'[r].sent = BuildMessages(req'[r].message, <<>>)
          /\ returned'.count # returned.count
                => heap'[returned'.session].messages =
                      Pair(returned'.message, StoredReply)]_vars

(* C20: in every state (each is one at a suspension point) the history of  *)
(* every stored session has an even length of at most 6, alternates user,  *)
(* assistant from a user turn on and holds no system turn.  Between the    *)
(* two add_message calls of a pair on a full history, where nothing else   *)
(* runs, the history starts with an assistant turn; after the second call  *)
(* it alternates again.                                                    *)
C20_StoredHistoriesAlternate ==
    \A u \in DOMAIN user_sessions :
        LET session == heap[user_sessions[u]]
            history == session.messages
            between == add_message(session, "user", <<"x">>, now)
            after == add_message(between, "assistant", <<"A">>, now)
        IN  /\ Len(history) <= 6
            /\ PairedTurns(history)
            /\ \A k \in 1..Len(history) : history[k].role # "system"
            /\ Len(history) = 6
               => /\ Len(between.messages) = 6
                  /\ between.messages[1].role = "assistant"
            /\ PairedTurns(after.messages)

(* A stored session whose history was trimmed: eight turns appended, the   *)
(* last six kept, the first of them a user turn.                           *)
C20_Witness ==
    \E u \in DOMAIN user_sessions :
        LET session == heap[user_sessions[u]] IN
        /\ Len(session.log) = 8
        /\ Len(session.messages) = 6
        /\ session.messages[1] = session.log[3]
        /\ session.messages[1].role = "user"

=============================================================================
